---- MODULE Spec2Model ----
(***************************************************************************)
(* Discord analytics collector: the rate-limited request client, the       *)
(* paginated fetchers and the metric reconciliation of the revisions kept  *)
(* in src/ (backend.js, functions/discord-analytics.js, server.js).        *)
(***************************************************************************)
EXTENDS Integers, Sequences, FiniteSets, TLC

VARIABLES
    rev,        \* which revision of the service runs
    startDate,  \* window start (instant)
    endDate,    \* window end (instant)
    fetcher,    \* the fetcher that runs: "messages" or "members", or the message metric computed
    upstream,   \* what the remote API holds for the fetcher (messages newest-first, members by id)
    pc,         \* position of the fetcher loop
    cursor,     \* `before` / `after` cursor of the fetcher; 0 is null / '0'
    acc,        \* the fetcher's accumulated result
    rstate,     \* position inside makeDiscordRequest: "none", "fetch", "sleep"
    issued,     \* requests issued by the current makeDiscordRequest call, with the status answered
    slept,      \* the delays (seconds) the current call waited
    outcome,    \* how the current call ended: "pending", "body", "null", "error"
    seen,       \* statuses the upstream answered during this fetch
    surfaced,   \* some call of this fetch returned null or threw
    world,      \* upstream truth the metric fetchers read (members, audit log, channels, messages)
    results,    \* the metric values computed so far
    rateLimitDelay, \* the internal delay (ms) the paginated fetcher waits between pages
    sheet,      \* the rows of Sheet1!A:H, header first
    requests    \* the collection requests in flight: position, label, what each has read and answered

vars == <<rev, startDate, endDate, fetcher, upstream, pc, cursor, acc,
          rstate, issued, slept, outcome, seen, surfaced, world, results,
          rateLimitDelay, sheet, requests>>

fetchVars == <<fetcher, upstream, pc, cursor, acc, rstate, issued, slept,
               outcome, seen, surfaced, rateLimitDelay>>

sheetVars == <<sheet, requests>>

(***************************************************************************)
(* Bounds of the model.  The page sizes stand for limit=100 (messages,     *)
(* audit log) and limit=1000 (members); the loops only compare a page's    *)
(* length with the limit, so a small page exercises the same branches.     *)
(***************************************************************************)
MaxTime == 3
MaxItems == 3
PageLimit == 2
MaxRetry == 2

Times == 0..MaxTime

Min(a, b) == IF a < b THEN a ELSE b

Last(s) == s[Len(s)]

(***************************************************************************)
(* Time handling                                                           *)
(***************************************************************************)
LOCAL_TIMEZONE == "America/Los_Angeles"

\* A moment is an instant with a display zone; tz() changes the zone only.
adjustToLocalTime(utcTime) == [t |-> utcTime, zone |-> LOCAL_TIMEZONE]

isBefore(m, d) == m.t < d
isSameOrBefore(m, d) == m.t <= d
isSameOrAfter(m, d) == m.t >= d
isAfter(m, d) == m.t > d

(***************************************************************************)
(* Rate-limited request client                                             *)
(***************************************************************************)
Statuses == {200, 403, 429, 500}
RetryAfterValues == {1, 2}

\* the revisions whose makeDiscordRequest loops on 429
RetryRevs == {"backend", "server"}
FetchRevs == RetryRevs \cup {"netlify"}

ResponseOk(status) == status \in 200..299

\* C2 mutant: a rate-limit answer is treated like any other failure
HandleResponseNoRetry(r, status, ignore403) ==
    IF status = 403 /\ ignore403 /\ r # "netlify" THEN "null"
    ELSE IF ~ResponseOk(status) THEN "error"
    ELSE "body"

\* C1 mutant: every 403 is swallowed, the caller's flag is not consulted
HandleResponseAny403(r, status, ignore403) ==
    IF r = "netlify"
    THEN IF ~ResponseOk(status) THEN "error" ELSE "body"
    ELSE IF status = 429 THEN "retry"
    ELSE IF status = 403 THEN "null"
    ELSE IF ~ResponseOk(status) THEN "error"
    ELSE "body"

\* What makeDiscordRequest does with one response.
HandleResponse(r, status, ignore403) ==
    IF r = "netlify"
    THEN \* functions/discord-analytics.js: one request, no 429 or 403 branch
         IF ~ResponseOk(status) THEN "error" ELSE "body"
    ELSE IF status = 429 THEN "retry"
    ELSE IF status = 403 /\ ignore403 THEN "null"
    ELSE IF ~ResponseOk(status) THEN "error"
    ELSE "body"

\* the ignore403 argument each fetcher passes
Ignore403(f) == f = "messages"

(***************************************************************************)
(* Upstream pages                                                          *)
(***************************************************************************)
\* GET /channels/{id}/messages?limit=..&before=..: newest first, older than the cursor
MessagePage(history, before) ==
    LET older == SelectSeq(history, LAMBDA m : before = 0 \/ m.id < before)
    IN  SubSeq(older, 1, Min(PageLimit, Len(older)))

\* GET /guilds/{id}/members?limit=..&after=..: ascending ids above the cursor
MemberPage(members, after) ==
    LET later == SelectSeq(members, LAMBDA m : m.id > after)
    IN  SubSeq(later, 1, Min(PageLimit, Len(later)))

(***************************************************************************)
(* Per-page window scan of the message listings                            *)
(***************************************************************************)
RECURSIVE ScanBackendStrictEnd(_, _, _, _, _)
\* C4 mutant: the end of the window is compared with isBefore
ScanBackendStrictEnd(batch, i, msgs, s, e) ==
    IF i > Len(batch) THEN [messages |-> msgs, stop |-> FALSE]
    ELSE LET msgTime == adjustToLocalTime(batch[i].ts) IN
         IF isSameOrAfter(msgTime, s) /\ isBefore(msgTime, e)
         THEN ScanBackendStrictEnd(batch, i + 1, Append(msgs, batch[i]), s, e)
         ELSE IF isBefore(msgTime, s)
         THEN [messages |-> msgs, stop |-> TRUE]
         ELSE ScanBackendStrictEnd(batch, i + 1, msgs, s, e)

RECURSIVE ScanBackend(_, _, _, _, _)
\* getChannelMessages: the for loop over one batch; stop is the early return
ScanBackend(batch, i, msgs, s, e) ==
    IF i > Len(batch) THEN [messages |-> msgs, stop |-> FALSE]
    ELSE LET msgTime == adjustToLocalTime(batch[i].ts) IN
         IF isSameOrAfter(msgTime, s) /\ isSameOrBefore(msgTime, e)
         THEN ScanBackend(batch, i + 1, Append(msgs, batch[i]), s, e)
         ELSE IF isBefore(msgTime, s)
         THEN [messages |-> msgs, stop |-> TRUE]
         ELSE ScanBackend(batch, i + 1, msgs, s, e)

\* msg.deleted = true for a message the deleted-message map names
Overlay(msg, deletedMessages) ==
    IF msg.id \in deletedMessages THEN [msg EXCEPT !.deleted = TRUE] ELSE msg

RECURSIVE ScanServer(_, _, _, _, _, _)
\* fetchMessages: the for loop over one batch; stop is reachedEnd
ScanServer(batch, i, msgs, s, e, deletedMessages) ==
    IF i > Len(batch) THEN [messages |-> msgs, stop |-> FALSE]
    ELSE LET msgTime == adjustToLocalTime(batch[i].ts) IN
         IF isBefore(msgTime, s)
         THEN [messages |-> msgs, stop |-> TRUE]
         ELSE IF isSameOrBefore(msgTime, e)
         THEN ScanServer(batch, i + 1, Append(msgs, Overlay(batch[i], deletedMessages)),
                         s, e, deletedMessages)
         ELSE ScanServer(batch, i + 1, msgs, s, e, deletedMessages)

(***************************************************************************)
(* The fetch specification: one paginated fetcher (getChannelMessages /    *)
(* fetchMessages / getAllMembers) running over makeDiscordRequest, the     *)
(* upstream choosing the status of every answer.                           *)
(***************************************************************************)
NonIncreasing(f) == \A i \in DOMAIN f : \A j \in DOMAIN f : i < j => f[i] >= f[j]

\* message ids are snowflakes: a newer message has the larger id
MkHistory(f) ==
    [i \in DOMAIN f |-> [id |-> Len(f) - i + 1, ts |-> f[i], author |-> 1,
                         reactions |-> <<>>, deleted |-> FALSE]]

Histories ==
    { MkHistory(f) : f \in { g \in UNION { [1..n -> Times] : n \in 0..MaxItems } : NonIncreasing(g) } }

MemberLists == { [i \in 1..n |-> [id |-> i, ts |-> 0]] : n \in 0..(MaxItems + 1) }

\* the fetch specification reads no world and computes no metric
NoWorld == [kind |-> "none"]
NoResults == <<>>

FetchInit ==
    /\ rev \in FetchRevs
    /\ fetcher \in {"messages", "members"}
    /\ upstream \in (IF fetcher = "messages" THEN Histories ELSE MemberLists)
    /\ startDate \in (IF fetcher = "messages" THEN Times ELSE {0})
    /\ endDate \in (IF fetcher = "messages" THEN startDate..MaxTime ELSE {0})
    /\ pc = "call"
    /\ cursor = 0
    /\ acc = <<>>
    /\ rstate = "none"
    /\ rateLimitDelay = 100
    /\ sheet = <<>>
    /\ requests = <<>>
    /\ issued = <<>>
    /\ slept = <<>>
    /\ outcome = "pending"
    /\ seen = {}
    /\ surfaced = FALSE
    /\ world = NoWorld
    /\ results = NoResults

\* the fetcher calls makeDiscordRequest(endpoint, "GET", ignore403)
Call ==
    /\ pc = "call"
    /\ pc' = "await"
    /\ rstate' = "fetch"
    /\ issued' = <<>>
    /\ slept' = <<>>
    /\ outcome' = "pending"
    /\ UNCHANGED <<rateLimitDelay, sheet, requests, rev, startDate, endDate, fetcher, upstream, cursor, acc,
                   seen, surfaced, world, results>>

\* makeDiscordRequest: await fetch(url, {method, headers}) and the branch on the status
Respond(status, retryAfter) ==
    /\ pc = "await"
    /\ rstate = "fetch"
    /\ status = 429 => Len(issued) < MaxRetry
    /\ issued' = Append(issued, [endpoint |-> cursor, method |-> "GET", status |-> status,
                                 retry_after |-> IF status = 429 THEN retryAfter ELSE 0])
    /\ seen' = seen \cup {status}
    /\ LET h == HandleResponse(rev, status, Ignore403(fetcher)) IN
         IF h = "retry"
         THEN /\ slept' = Append(slept, retryAfter * 1000)
              /\ rstate' = "sleep"
              /\ UNCHANGED <<outcome, surfaced>>
         ELSE /\ rstate' = "none"
              /\ outcome' = h
              /\ surfaced' = (surfaced \/ h \in {"null", "error"})
              /\ UNCHANGED slept
    /\ UNCHANGED <<rateLimitDelay, sheet, requests, rev, startDate, endDate, fetcher, upstream, pc, cursor, acc,
                   world, results>>

\* makeDiscordRequest: the retry delay has elapsed, `continue`
Wake ==
    /\ pc = "await"
    /\ rstate = "sleep"
    /\ rstate' = "fetch"
    /\ UNCHANGED <<rateLimitDelay, sheet, requests, rev, startDate, endDate, fetcher, upstream, pc, cursor, acc,
                   issued, slept, outcome, seen, surfaced, world, results>>

\* getChannelMessages (backend.js, discord-analytics.js): one loop iteration after the request
GetChannelMessagesStep ==
    /\ pc = "await"
    /\ rstate = "none"
    /\ fetcher = "messages"
    /\ rev \in {"backend", "netlify"}
    /\ LET batch == MessagePage(upstream, cursor)
           scan == ScanBackend(batch, 1, acc, startDate, endDate)
       IN  CASE outcome = "error" -> \* catch: break
                    /\ pc' = "done"
                    /\ UNCHANGED <<acc, cursor>>
             [] outcome = "null" -> \* if (!batch) return []
                    /\ pc' = "done"
                    /\ acc' = <<>>
                    /\ UNCHANGED cursor
             [] outcome = "body" /\ Len(batch) = 0 ->
                    /\ pc' = "done"
                    /\ UNCHANGED <<acc, cursor>>
             [] outcome = "body" /\ Len(batch) > 0 ->
                    /\ acc' = scan.messages
                    /\ IF scan.stop
                       THEN pc' = "done" /\ UNCHANGED cursor
                       ELSE pc' = "call" /\ cursor' = Last(batch).id
    /\ UNCHANGED <<rateLimitDelay, sheet, requests, rev, startDate, endDate, fetcher, upstream, rstate, issued, slept,
                   outcome, seen, surfaced, world, results>>

\* every error is taken for a rate limit and the page is requested again
IsRateLimitedErrorAlways(status) == TRUE

\* the error text makeDiscordRequest throws never contains 'rate limited'
IsRateLimitedError(status) == FALSE

\* getAllChannelMessages.fetchMessages (server.js): one loop iteration after the request
FetchMessagesStep ==
    /\ pc = "await"
    /\ rstate = "none"
    /\ fetcher = "messages"
    /\ rev = "server"
    /\ LET batch == MessagePage(upstream, cursor)
           scan == ScanServer(batch, 1, acc, startDate, endDate, {})
       IN  CASE outcome = "error" /\ IsRateLimitedError(Last(issued).status) ->
                    \* rateLimitDelay *= 2; continue
                    /\ pc' = "call"
                    /\ rateLimitDelay' = rateLimitDelay * 2
                    /\ UNCHANGED <<acc, cursor>>
             [] outcome = "error" /\ ~IsRateLimitedError(Last(issued).status) ->
                    /\ pc' = "done"
                    /\ UNCHANGED <<acc, cursor, rateLimitDelay>>
             [] outcome = "null" \/ (outcome = "body" /\ Len(batch) = 0) ->
                    /\ pc' = "done"
                    /\ UNCHANGED <<acc, cursor, rateLimitDelay>>
             [] outcome = "body" /\ Len(batch) > 0 ->
                    \* batchCount stays below 10 within MaxItems pages: no += 50
                    /\ acc' = scan.messages
                    /\ UNCHANGED rateLimitDelay
                    /\ IF scan.stop
                       THEN pc' = "done" /\ UNCHANGED cursor
                       ELSE pc' = "call" /\ cursor' = Last(batch).id
    /\ UNCHANGED <<sheet, requests, rev, startDate, endDate, fetcher, upstream, rstate, issued, slept,
                   outcome, seen, surfaced, world, results>>

\* a member listing that goes on after a short page and stops at an empty one only
GetAllMembersStepUntilEmpty ==
    /\ pc = "await"
    /\ rstate = "none"
    /\ fetcher = "members"
    /\ LET batch == MemberPage(upstream, cursor)
       IN  CASE outcome = "error" ->
                    /\ pc' = "failed"
                    /\ UNCHANGED <<acc, cursor>>
             [] outcome = "null" \/ (outcome = "body" /\ Len(batch) = 0) ->
                    /\ pc' = "done"
                    /\ UNCHANGED <<acc, cursor>>
             [] outcome = "body" /\ Len(batch) > 0 ->
                    /\ acc' = acc \o batch
                    /\ pc' = "call"
                    /\ cursor' = Last(batch).id
    /\ UNCHANGED <<rateLimitDelay, sheet, requests, rev, startDate, endDate, fetcher, upstream, rstate, issued, slept,
                   outcome, seen, surfaced, world, results>>

\* getAllMembers / getAllGuildMembers: one loop iteration after the request
GetAllMembersStep ==
    /\ pc = "await"
    /\ rstate = "none"
    /\ fetcher = "members"
    /\ LET batch == MemberPage(upstream, cursor)
       IN  CASE outcome = "error" -> \* no try/catch: the fetcher throws
                    /\ pc' = "failed"
                    /\ UNCHANGED <<acc, cursor>>
             [] outcome = "null" \/ (outcome = "body" /\ Len(batch) = 0) ->
                    /\ pc' = "done"
                    /\ UNCHANGED <<acc, cursor>>
             [] outcome = "body" /\ Len(batch) > 0 ->
                    /\ acc' = acc \o batch
                    /\ IF Len(batch) < PageLimit
                       THEN pc' = "done" /\ UNCHANGED cursor
                       ELSE pc' = "call" /\ cursor' = Last(batch).id
    /\ UNCHANGED <<rateLimitDelay, sheet, requests, rev, startDate, endDate, fetcher, upstream, rstate, issued, slept,
                   outcome, seen, surfaced, world, results>>

FetchNext ==
    \/ Call
    \/ \E status \in Statuses : \E retryAfter \in RetryAfterValues :
          (status # 429 => retryAfter = 1) /\ Respond(status, retryAfter)
    \/ Wake
    \/ GetChannelMessagesStep
    \/ FetchMessagesStep
    \/ GetAllMembersStep

SpecFetch == FetchInit /\ [][FetchNext]_vars

\* every request is answered and every continuation is run: a fetcher that can
\* take a step takes one
SpecFetchFair == FetchInit /\ [][FetchNext]_vars /\ WF_vars(FetchNext)

(***************************************************************************)
(* Claims about the request client and the per-channel listing             *)
(***************************************************************************)
RateLimitedCount(reqs) == Cardinality({ i \in DOMAIN reqs : reqs[i].status = 429 })

\* C1: in backend.js and server.js makeDiscordRequest decides by the status alone:
\* a request is reissued only after a 429, after waiting that answer's retry_after,
\* and with the same URL and method; 403 with ignore403 returns null; any other
\* non-success status fails at its first occurrence; success returns the body.
C1_StatusDecidesOutcome ==
    rev \in RetryRevs =>
        /\ outcome \in {"pending", "null", "error", "body"}
        /\ \A i \in 1..(Len(issued) - 1) : issued[i].status = 429
        /\ \A i \in DOMAIN issued :
              /\ issued[i].endpoint = issued[1].endpoint
              /\ issued[i].method = issued[1].method
        /\ Len(slept) = RateLimitedCount(issued)
        /\ \A i \in DOMAIN slept : slept[i] = issued[i].retry_after * 1000
        /\ outcome = "pending" => \A i \in DOMAIN issued : issued[i].status = 429
        /\ outcome = "null" => Last(issued).status = 403 /\ Ignore403(fetcher)
        /\ outcome = "error" =>
              /\ Last(issued).status # 429
              /\ ~ResponseOk(Last(issued).status)
              /\ ~(Last(issued).status = 403 /\ Ignore403(fetcher))
        /\ outcome = "body" => ResponseOk(Last(issued).status)

\* C1 witness: a call that was rate limited, waited, reissued the request and then
\* returned null on a tolerated 403
C1_Witness ==
    /\ rev \in RetryRevs
    /\ Len(issued) >= 2
    /\ issued[1].status = 429
    /\ slept # <<>>
    /\ outcome = "null"

\* C2: with no retry cap, a call of backend.js / part_001 has ended exactly when the
\* last answer was not a 429; after any number of consecutive 429 answers it is
\* still pending.
C2_EndsOnlyOnNon429 ==
    rev \in RetryRevs =>
        ((outcome # "pending") <=> (issued # <<>> /\ Last(issued).status # 429))

\* C2 witness: as many consecutive 429 answers as the model allows, call still pending
C2_Witness ==
    /\ rev \in RetryRevs
    /\ Len(issued) = MaxRetry
    /\ \A i \in DOMAIN issued : issued[i].status = 429
    /\ outcome = "pending"
    /\ pc = "await"

\* what a fetcher returns when every page is served
FullResult ==
    IF fetcher = "messages"
    THEN SelectSeq(upstream, LAMBDA m : startDate <= m.ts /\ m.ts <= endDate)
    ELSE upstream

\* C3: a 429 answer never makes makeDiscordRequest fail and never makes a fetcher
\* fail or return a truncated result (stated for every revision).
C3_RateLimitNeverSurfaced ==
    /\ outcome = "error" => Last(issued).status # 429
    /\ pc = "failed" => seen \cap {403, 500} # {}
    /\ (pc = "done" /\ seen \subseteq {200, 429}) => acc = FullResult

\* C4: when every page is served, the listing returns exactly the messages with
\* startDate <= t <= endDate, in the order served.
C4_WindowListingExact ==
    (fetcher = "messages" /\ pc = "done" /\ ~surfaced) => acc = FullResult

\* C4 witness: a finished listing over a message inside the window, one exactly at
\* the window end and one just after it: two messages are returned
C4_Witness ==
    /\ fetcher = "messages"
    /\ pc = "done"
    /\ ~surfaced
    /\ endDate < MaxTime
    /\ Len(upstream) = 3
    /\ upstream[1].ts = endDate + 1
    /\ upstream[2].ts = endDate
    /\ upstream[3].ts >= startDate
    /\ upstream[3].ts < endDate
    /\ Len(acc) = 2

(***************************************************************************)
(* Audit log                                                               *)
(***************************************************************************)
MEMBER_ADD == 1
MEMBER_REMOVE == 20
MESSAGE_DELETE == 72
MEMBER_UPDATE == 24

RECURSIVE SortDesc(_)
\* the entries of a set, newest (largest id) first, as the API serves them
SortDesc(S) ==
    IF S = {} THEN <<>>
    ELSE LET m == CHOOSE x \in S : \A y \in S : y.id <= x.id
         IN  <<m>> \o SortDesc(S \ {m})

\* GET /guilds/{id}/audit-logs?action_type=..&limit=..&before=..
getAuditLogs(entries, actionType, before) ==
    LET log == SortDesc({ x \in entries : x.action_type = actionType })
        older == SelectSeq(log, LAMBDA x : before = 0 \/ x.id < before)
    IN  SubSeq(older, 1, Min(PageLimit, Len(older)))

RECURSIVE AuditLoop(_, _, _, _, _)
\* getAllAuditLogs: the while loop, lastId the cursor and logs the entries kept so far
AuditLoop(entries, actionType, s, lastId, logs) ==
    LET batch == getAuditLogs(entries, actionType, lastId)
        relevantEntries == SelectSeq(batch, LAMBDA x : x.created_at >= s)
    IN  IF Len(batch) = 0 THEN logs
        ELSE IF Len(relevantEntries) < Len(batch) THEN logs
        ELSE AuditLoop(entries, actionType, s, Last(batch).id, logs \o relevantEntries)

getAllAuditLogs(entries, actionType, s) == AuditLoop(entries, actionType, s, 0, <<>>)

(***************************************************************************)
(* Members                                                                 *)
(***************************************************************************)
\* A person of the guild's history: joined at `joined`, and left at the instant in
\* `left` (empty while still a member).
\* The live member list holds the persons who have not left.
LiveMembers(people) ==
    SelectSeq([i \in DOMAIN people |-> [id |-> people[i].id, joined_at |-> people[i].joined]],
              LAMBDA m : people[m.id].left = {})

\* The audit log holds one MEMBER_ADD entry per join and one MEMBER_REMOVE per leave;
\* entry ids grow with the creation time.
MemberAuditEntries(people) ==
    { [id |-> people[i].joined * 100 + 2 * i, action_type |-> MEMBER_ADD,
       target_id |-> people[i].id, created_at |-> people[i].joined] : i \in DOMAIN people }
    \cup
    { [id |-> t * 100 + 2 * i + 1, action_type |-> MEMBER_REMOVE,
       target_id |-> people[i].id, created_at |-> t] :
         <<i, t>> \in { z \in (DOMAIN people) \X Times : z[2] \in people[z[1]].left } }

RECURSIVE MembersLoop(_, _, _)
\* getAllGuildMembers: the while loop
MembersLoop(members, after, allMembers) ==
    LET later == SelectSeq(members, LAMBDA m : m.id > after)
        batch == SubSeq(later, 1, Min(PageLimit, Len(later)))
    IN  IF Len(batch) = 0 THEN allMembers
        ELSE IF Len(batch) < PageLimit THEN allMembers \o batch
        ELSE MembersLoop(members, Last(batch).id, allMembers \o batch)

getAllGuildMembers(people) == MembersLoop(LiveMembers(people), 0, <<>>)

getMemberLeaves(people, s, e) ==
    SelectSeq(getAllAuditLogs(MemberAuditEntries(people), MEMBER_REMOVE, s),
              LAMBDA x : x.created_at >= s /\ x.created_at <= e)

\* memberLeaves.get(id): the Map keeps the last entry set for a key
LeaveDate(leaveAuditLogs, id) ==
    LET hits == { i \in DOMAIN leaveAuditLogs : leaveAuditLogs[i].target_id = id }
    IN  IF hits = {} THEN {}
        ELSE { leaveAuditLogs[CHOOSE i \in hits : \A j \in hits : j <= i].created_at }

\* getTotalMembers(startDate, endDate) of server.js, first revision
getTotalMembers(people, s, e) ==
    LET allMembers == getAllGuildMembers(people)
        leaveAuditLogs == getMemberLeaves(people, s, e)
        count == Len(SelectSeq(allMembers, LAMBDA m :
                     /\ isSameOrBefore(adjustToLocalTime(m.joined_at), e)
                     /\ ~(\E leaveDate \in LeaveDate(leaveAuditLogs, m.id) : leaveDate <= e)))
        additionalMembers == Len(SelectSeq(leaveAuditLogs, LAMBDA x :
                     /\ ~(\E i \in DOMAIN allMembers : allMembers[i].id = x.target_id)
                     /\ x.created_at >= s
                     /\ x.created_at <= e))
    IN  count + additionalMembers

\* a filter that leaves out the joins at the very end of the window
getNewMembersHalfOpen(people, s, e) ==
    Len(SelectSeq(getAllGuildMembers(people), LAMBDA m :
            /\ isSameOrAfter(adjustToLocalTime(m.joined_at), s)
            /\ isBefore(adjustToLocalTime(m.joined_at), e)))

\* getNewMembers of server.js, first revision: from the live member list
getNewMembersLive(people, s, e) ==
    Len(SelectSeq(getAllGuildMembers(people), LAMBDA m :
            /\ isSameOrAfter(adjustToLocalTime(m.joined_at), s)
            /\ isSameOrBefore(adjustToLocalTime(m.joined_at), e)))

\* getNewMembers of server.js, second revision: from the MEMBER_ADD audit log
getNewMembersAudit(people, s, e) ==
    Len(SelectSeq(getAllAuditLogs(MemberAuditEntries(people), MEMBER_ADD, s),
                  LAMBDA x : x.created_at >= s /\ x.created_at <= e))

getNewMembers(r, people, s, e) ==
    IF r = "server" THEN getNewMembersLive(people, s, e) ELSE getNewMembersAudit(people, s, e)

(***************************************************************************)
(* The members specification: a guild history, a window, and the member    *)
(* metrics of server.js computed over it.                                  *)
(***************************************************************************)
MaxPeople == 2

MemberRevs == {"server", "server2"}

PersonShapes ==
    { [joined |-> j, left |-> l] : <<j, l>> \in
        { z \in Times \X ({{}} \cup { {t} : t \in Times }) : \A t \in z[2] : t >= z[1] } }

Guilds ==
    { [i \in DOMAIN f |-> [id |-> i, joined |-> f[i].joined, left |-> f[i].left]] :
        f \in UNION { [1..n -> PersonShapes] : n \in 0..MaxPeople } }

MembersInit ==
    /\ rev \in MemberRevs
    /\ startDate \in Times
    /\ endDate \in startDate..MaxTime
    /\ world \in { [kind |-> "guild", people |-> g] : g \in Guilds }
    /\ results = NoResults
    /\ fetcher = "none"
    /\ upstream = <<>>
    /\ pc = "idle"
    /\ cursor = 0
    /\ acc = <<>>
    /\ rstate = "none"
    /\ rateLimitDelay = 100
    /\ sheet = <<>>
    /\ requests = <<>>
    /\ issued = <<>>
    /\ slept = <<>>
    /\ outcome = "pending"
    /\ seen = {}
    /\ surfaced = FALSE

Computed(metric) == metric \in DOMAIN results

\* the handler awaits getTotalMembers(startDate, endDate)
GetTotalMembers ==
    /\ rev = "server"
    /\ ~Computed("totalMembers")
    /\ results' = results @@ ("totalMembers" :> getTotalMembers(world.people, startDate, endDate))
    /\ UNCHANGED <<sheet, requests, rev, startDate, endDate, world>>
    /\ UNCHANGED fetchVars

\* the handler awaits getNewMembers(startDate, endDate)
GetNewMembers ==
    /\ ~Computed("newMembers")
    /\ results' = results @@ ("newMembers" :> getNewMembers(rev, world.people, startDate, endDate))
    /\ UNCHANGED <<sheet, requests, rev, startDate, endDate, world>>
    /\ UNCHANGED fetchVars

MembersNext == GetTotalMembers \/ GetNewMembers

SpecMembers == MembersInit /\ [][MembersNext]_vars

(***************************************************************************)
(* Claims about the member metrics                                         *)
(***************************************************************************)
People == { world.people[i] : i \in DOMAIN world.people }

\* the scenario of the specification: A joined before the window and is still
\* present, B joined and left inside the window
ScenarioAB ==
    /\ Len(world.people) = 2
    /\ world.people[1].joined < startDate /\ world.people[1].left = {}
    /\ world.people[2].joined >= startDate /\ world.people[2].joined <= endDate
    /\ \E t \in world.people[2].left : t <= endDate

\* C5: the leave-aware getTotalMembers counts a member only if the join is on or
\* before the window end and no leave of that member is on or before the window end;
\* in the scenario of A and B the total is 1.
C5_TotalCountsOnlyPresentAtEnd ==
    Computed("totalMembers") =>
        /\ results["totalMembers"] <=
              Cardinality({ q \in People : q.joined <= endDate /\ ~(\E t \in q.left : t <= endDate) })
        /\ ScenarioAB => results["totalMembers"] = 1

\* C6: getNewMembers is the number of members whose join lies in the window,
\* members who have left since included.
C6_NewMembersAreJoinsInWindow ==
    Computed("newMembers") =>
        results["newMembers"] =
            Cardinality({ q \in People : q.joined >= startDate /\ q.joined <= endDate })

(***************************************************************************)
(* Channels, threads and messages                                          *)
(***************************************************************************)
TEXT == 0
PUBLIC_THREAD == 11
FORUM == 15

isMessageableChannel(channel) == channel.type = TEXT \/ channel.type = FORUM

\* channels.filter(...) of each revision's metric functions
ChannelFilter(r, channel) ==
    IF r = "server" THEN isMessageableChannel(channel) ELSE channel.type = 0

RECURSIVE SumSeq(_)
SumSeq(q) == IF q = <<>> THEN 0 ELSE Head(q) + SumSeq(Tail(q))

\* A chat history holds channels, threads, messages and member updates.  A message
\* was posted at `ts` in `place` (a channel or a thread); `del` holds the instant it
\* was deleted (empty if never); `listed` tells whether the listing still serves it.
\* GET /channels/{place}/messages serves the listed messages of the place.
Listing(chat, place) ==
    SortDesc({ [id |-> chat.msgs[i].id, ts |-> chat.msgs[i].ts, author |-> chat.msgs[i].author,
                reactions |-> chat.msgs[i].reactions, content |-> chat.msgs[i].content,
                deleted |-> FALSE] :
               i \in { j \in DOMAIN chat.msgs : chat.msgs[j].place = place /\ chat.msgs[j].listed } })

\* The audit log holds one MESSAGE_DELETE entry per deleted message, its
\* options.channel_id the place the message was in, and one MEMBER_UPDATE entry per
\* member update; entry ids grow with the creation time.
ChatAuditEntries(chat) ==
    { [id |-> z[2] * 100 + chat.msgs[z[1]].id, action_type |-> MESSAGE_DELETE,
       target_id |-> chat.msgs[z[1]].id, created_at |-> z[2],
       channel_id |-> chat.msgs[z[1]].place] :
         z \in { y \in (DOMAIN chat.msgs) \X Times : y[2] \in chat.msgs[y[1]].del } }
    \cup
    { [id |-> u.at * 100 + 50 + u.target, action_type |-> MEMBER_UPDATE,
       target_id |-> u.target, created_at |-> u.at, channel_id |-> 0] : u \in chat.updates }

\* GET /channels/{id}/threads/active, /threads/archived/public, /threads/archived/private
ThreadsOf(chat, channelId, kind) ==
    SelectSeq(chat.threads, LAMBDA th : th.parent_id = channelId /\ th.kind = kind)

RECURSIVE GetChannelMessagesLoop(_, _, _, _, _)
\* getChannelMessages of backend.js: the while loop, every page served
GetChannelMessagesLoop(listing, before, messages, s, e) ==
    LET batch == MessagePage(listing, before)
        scan == ScanBackend(batch, 1, messages, s, e)
    IN  IF Len(batch) = 0 THEN messages
        ELSE IF scan.stop THEN scan.messages
        ELSE GetChannelMessagesLoop(listing, Last(batch).id, scan.messages, s, e)

RECURSIVE fetchMessages(_, _, _, _, _, _)
\* getAllChannelMessages.fetchMessages of server.js: the while loop, every page served
fetchMessages(listing, messageLastId, channelMessages, s, e, deletedMessages) ==
    LET batch == MessagePage(listing, messageLastId)
        scan == ScanServer(batch, 1, channelMessages, s, e, deletedMessages)
    IN  IF Len(batch) = 0 THEN channelMessages
        ELSE IF scan.stop THEN scan.messages
        ELSE fetchMessages(listing, Last(batch).id, scan.messages, s, e, deletedMessages)

RECURSIVE FetchThreads(_, _, _, _, _, _)
\* for (const thread of threads) messages.push(...await fetchMessages(thread.id))
FetchThreads(chat, threads, i, s, e, deletedMessages) ==
    IF i > Len(threads) THEN <<>>
    ELSE fetchMessages(Listing(chat, threads[i].id), 0, <<>>, s, e, deletedMessages)
         \o FetchThreads(chat, threads, i + 1, s, e, deletedMessages)

\* getAllChannelMessages of server.js, first revision, for a channel of the guild
getAllChannelMessagesThreads(chat, channelInfo, s, e) ==
    LET channelId == channelInfo.id
        deletedMessageLogs == getAllAuditLogs(ChatAuditEntries(chat), MESSAGE_DELETE, s)
        deletedMessages == { deletedMessageLogs[i].target_id :
                               i \in { j \in DOMAIN deletedMessageLogs :
                                         deletedMessageLogs[j].channel_id = channelId } }
        created(th) == [t |-> th.creation_timestamp, zone |-> "UTC"]
        recent(threads) == SelectSeq(threads, LAMBDA th : isSameOrAfter(created(th), s))
        channelMessages == fetchMessages(Listing(chat, channelId), 0, <<>>, s, e, deletedMessages)
    IN  IF channelInfo.type \in {TEXT, FORUM, PUBLIC_THREAD}
        THEN channelMessages
             \o FetchThreads(chat, ThreadsOf(chat, channelId, "active"), 1, s, e, deletedMessages)
             \o FetchThreads(chat, recent(ThreadsOf(chat, channelId, "public")), 1, s, e,
                             deletedMessages)
             \o FetchThreads(chat, recent(ThreadsOf(chat, channelId, "private")), 1, s, e,
                             deletedMessages)
        ELSE channelMessages

\* getAllChannelMessages of server.js, second revision: no threads, every deleted id
getAllChannelMessagesFlat(chat, channelInfo, s, e) ==
    LET deletedMessages == getAllAuditLogs(ChatAuditEntries(chat), MESSAGE_DELETE, s)
        deletedMessageIds == { deletedMessages[i].target_id : i \in DOMAIN deletedMessages }
    IN  fetchMessages(Listing(chat, channelInfo.id), 0, <<>>, s, e, deletedMessageIds)

getAllChannelMessages(r, chat, channelInfo, s, e) ==
    IF r = "server" THEN getAllChannelMessagesThreads(chat, channelInfo, s, e)
    ELSE IF r = "server2" THEN getAllChannelMessagesFlat(chat, channelInfo, s, e)
    ELSE GetChannelMessagesLoop(Listing(chat, channelInfo.id), 0, <<>>, s, e)

\* the per-channel message lists of the channels a metric function walks
ChannelMessageLists(r, chat, s, e) ==
    LET channels == SelectSeq(chat.channels, LAMBDA c : ChannelFilter(r, c))
    IN  [i \in DOMAIN channels |-> getAllChannelMessages(r, chat, channels[i], s, e)]

\* getMessagesPosted(startDate, endDate)
getMessagesPosted(r, chat, s, e) ==
    LET lists == ChannelMessageLists(r, chat, s, e)
        deletedMessages == getAllAuditLogs(ChatAuditEntries(chat), MESSAGE_DELETE, s)
        deletedInPeriod == SelectSeq(deletedMessages,
                               LAMBDA x : x.created_at >= s /\ x.created_at <= e)
        validMessages(i) == SelectSeq(lists[i], LAMBDA msg : ~msg.deleted)
    IN  IF r = "backend"
        THEN SumSeq([i \in DOMAIN lists |-> Len(lists[i])])
        ELSE SumSeq([i \in DOMAIN lists |-> Len(validMessages(i))]) + Len(deletedInPeriod)

\* getReactions(startDate, endDate)
getReactions(r, chat, s, e) ==
    LET lists == ChannelMessageLists(r, chat, s, e)
        counted(msg) == IF msg.reactions # <<>> /\ (r = "backend" \/ ~msg.deleted)
                        THEN SumSeq(msg.reactions) ELSE 0
        channelReactions(i) == SumSeq([k \in DOMAIN lists[i] |-> counted(lists[i][k])])
    IN  SumSeq([i \in DOMAIN lists |-> channelReactions(i)])

\* getActiveUsers(startDate, endDate)
getActiveUsers(r, chat, s, e) ==
    LET lists == ChannelMessageLists(r, chat, s, e)
        memberUpdates == getAllAuditLogs(ChatAuditEntries(chat), MEMBER_UPDATE, s)
        updated == { memberUpdates[i].target_id :
                       i \in { j \in DOMAIN memberUpdates :
                                 /\ memberUpdates[j].created_at >= s
                                 /\ memberUpdates[j].created_at <= e } }
        authors == UNION { { lists[i][k].author :
                               k \in { n \in DOMAIN lists[i] : r = "backend" \/ ~lists[i][n].deleted } } :
                           i \in DOMAIN lists }
    IN  IF r = "backend" THEN Cardinality(authors) ELSE Cardinality(updated \cup authors)

(***************************************************************************)
(* The messages specification: a chat history, a window, and one of the    *)
(* message metrics computed over it by one revision.                       *)
(***************************************************************************)
MaxMsgs == 2

Users == 1..2

MessageRevs == {"backend", "server", "server2"}

MessageMetrics == {"messagesPosted", "reactions", "activeUsers"}

\* channel 1 is a text channel; channel 2 is a text, a voice (type 2) or a forum
\* channel, and is part of the history when it holds a message
ChannelLists(places) ==
    IF 2 \in places
    THEN { <<[id |-> 1, type |-> TEXT], [id |-> 2, type |-> t]>> : t \in {TEXT, 2, FORUM} }
    ELSE { <<[id |-> 1, type |-> TEXT]>> }

\* place 3 is a thread of channel 1: active or archived, created before every window
\* or at the window start, and never after one of its messages
ThreadLists(s, posted) ==
    IF posted = {}
    THEN {<<>>}
    ELSE { <<[id |-> 3, parent_id |-> 1, kind |-> z[1], creation_timestamp |-> z[2]]>> :
             z \in { y \in {"active", "public", "private"} \X {0, s} :
                       /\ \A t \in posted : t >= y[2]
                       /\ y[1] = "active" => y[2] = 0 } }

\* only the first revision of server.js reads threads
Places(r) == IF r = "server" THEN 1..3 ELSE 1..2

\* what may have become of a message posted at ts: never deleted, or deleted at some
\* later instant and then either gone from the listing or still served by it.
\* getActiveUsers reads authors from the listing only: its histories hold the
\* messages never deleted and those deleted at once yet still served.
Fates(metric, ts) ==
    { [del |-> {}, listed |-> TRUE] } \cup
    (IF metric = "activeUsers"
     THEN { [del |-> {ts}, listed |-> TRUE] }
     ELSE { [del |-> {t}, listed |-> l] : <<t, l>> \in (ts..MaxTime) \X BOOLEAN })

MessageShapes(r, metric) ==
    UNION { { [place |-> z[1], ts |-> z[2], author |-> z[3], del |-> f.del, listed |-> f.listed] :
                f \in Fates(metric, z[2]) } :
            z \in Places(r) \X Times \X (IF metric = "activeUsers" THEN Users ELSE {1}) }

\* message ids are snowflakes: a later message has the larger id
MessageLists(r, metric) ==
    { [i \in DOMAIN f |->
          [id |-> i, place |-> f[i].place, ts |-> f[i].ts, author |-> f[i].author,
           reactions |-> IF i = 1 THEN <<1>> ELSE <<2 ^ (i - 2), 2 ^ (i - 2)>>,
           content |-> <<>>, del |-> f[i].del, listed |-> f[i].listed]] :
        f \in { g \in UNION { [1..n -> MessageShapes(r, metric)] : n \in 0..MaxMsgs } :
                  \A i \in DOMAIN g : \A j \in DOMAIN g : i < j => g[i].ts <= g[j].ts } }

\* member updates are read by getActiveUsers only: at most two, before the window
\* or at its start
UpdateSets(metric, s) ==
    IF metric # "activeUsers" THEN {{}}
    ELSE { U \in SUBSET { [target |-> z[1], at |-> z[2]] : z \in Users \X {0, s} } :
             Cardinality(U) <= 2 }

PostedAt(msgs, place) == { msgs[i].ts : i \in { j \in DOMAIN msgs : msgs[j].place = place } }

MessagesInit ==
    /\ rev \in MessageRevs
    /\ fetcher \in MessageMetrics
    /\ startDate \in 1..(MaxTime - 2)
    /\ endDate \in startDate..(MaxTime - 1)
    /\ \E m \in MessageLists(rev, fetcher) :
         \E c \in ChannelLists({ m[i].place : i \in DOMAIN m }) :
           \E th \in ThreadLists(startDate, PostedAt(m, 3)) :
             \E u \in UpdateSets(fetcher, startDate) :
               world = [kind |-> "chat", channels |-> c, threads |-> th, msgs |-> m,
                        updates |-> u]
    /\ results = NoResults
    /\ upstream = <<>>
    /\ pc = "idle"
    /\ cursor = 0
    /\ acc = <<>>
    /\ rstate = "none"
    /\ rateLimitDelay = 100
    /\ sheet = <<>>
    /\ requests = <<>>
    /\ issued = <<>>
    /\ slept = <<>>
    /\ outcome = "pending"
    /\ seen = {}
    /\ surfaced = FALSE

\* the handler awaits getMessagesPosted(startDate, endDate)
GetMessagesPosted ==
    /\ fetcher = "messagesPosted"
    /\ ~Computed("messagesPosted")
    /\ results' = results @@ ("messagesPosted" :> getMessagesPosted(rev, world, startDate, endDate))
    /\ UNCHANGED <<sheet, requests, rev, startDate, endDate, world>>
    /\ UNCHANGED fetchVars

\* the handler awaits getReactions(startDate, endDate)
GetReactions ==
    /\ fetcher = "reactions"
    /\ ~Computed("reactions")
    /\ results' = results @@ ("reactions" :> getReactions(rev, world, startDate, endDate))
    /\ UNCHANGED <<sheet, requests, rev, startDate, endDate, world>>
    /\ UNCHANGED fetchVars

\* the handler awaits getActiveUsers(startDate, endDate)
GetActiveUsers ==
    /\ fetcher = "activeUsers"
    /\ ~Computed("activeUsers")
    /\ results' = results @@ ("activeUsers" :> getActiveUsers(rev, world, startDate, endDate))
    /\ UNCHANGED <<sheet, requests, rev, startDate, endDate, world>>
    /\ UNCHANGED fetchVars

MessagesNext == GetMessagesPosted \/ GetReactions \/ GetActiveUsers

SpecMessages == MessagesInit /\ [][MessagesNext]_vars

(***************************************************************************)
(* Claims about the message metrics                                        *)
(***************************************************************************)
Posted == { world.msgs[i] : i \in DOMAIN world.msgs }

InWindow(t) == startDate <= t /\ t <= endDate

\* the channels the running revision's metric functions walk and, where the
\* revision reads threads, the threads of those channels
CoveredPlaces ==
    LET walked == { world.channels[i].id :
                      i \in { j \in DOMAIN world.channels : ChannelFilter(rev, world.channels[j]) } }
    IN  walked \cup
        (IF rev = "server"
         THEN { world.threads[i].id :
                  i \in { j \in DOMAIN world.threads : world.threads[j].parent_id \in walked } }
         ELSE {})

\* the channel a place is read under: a thread is read under its parent
WalkedChannel(place) ==
    IF \E i \in DOMAIN world.threads : world.threads[i].id = place
    THEN world.threads[CHOOSE i \in DOMAIN world.threads : world.threads[i].id = place].parent_id
    ELSE place

\* the message carries the deleted overlay: the deletion log the revision keeps names
\* it (the first revision of server.js asks for the walked channel's id as well)
MarkedDeleted(m) ==
    LET logs == getAllAuditLogs(ChatAuditEntries(world), MESSAGE_DELETE, startDate)
    IN  /\ rev # "backend"
        /\ \E i \in DOMAIN logs :
              /\ logs[i].target_id = m.id
              /\ rev = "server" => logs[i].channel_id = WalkedChannel(m.place)

\* the in-window messages of the covered places that a listing serves and that are
\* not marked deleted
Counted == { m \in Posted : /\ m.listed
                            /\ InWindow(m.ts)
                            /\ m.place \in CoveredPlaces
                            /\ ~MarkedDeleted(m) }

\* C7: every message posted inside the window (in a covered place) counts toward
\* getMessagesPosted, deleted later or not and whenever the deletion happened.
C7_DeletedLaterStillCounts ==
    (rev \in {"server", "server2"} /\ Computed("messagesPosted")) =>
        results["messagesPosted"] >=
            Cardinality({ m \in Posted : InWindow(m.ts) /\ m.place \in CoveredPlaces })

\* C8: getMessagesPosted is the number of non-deleted in-window messages of the
\* messageable channels plus the number of message-deletion audit-log entries dated
\* inside the window.
C8_PostedIsListedPlusDeletions ==
    (rev = "server" /\ Computed("messagesPosted")) =>
        results["messagesPosted"] =
            Cardinality({ m \in Posted : m.del = {} /\ InWindow(m.ts) /\ m.place \in CoveredPlaces })
            + Cardinality({ x \in ChatAuditEntries(world) :
                              x.action_type = MESSAGE_DELETE /\ InWindow(x.created_at) })

\* C9: getReactions is the sum of the reaction counts of the in-window messages that
\* are not marked deleted, each counted once; marked and unlisted messages add zero.
C9_ReactionsOfUnmarkedInWindow ==
    (rev \in {"server", "backend"} /\ Computed("reactions")) =>
        results["reactions"] =
            SumSeq([i \in DOMAIN world.msgs |->
                      IF world.msgs[i] \in Counted THEN SumSeq(world.msgs[i].reactions) ELSE 0])

\* C10: getActiveUsers is the size of the union of the authors of the in-window,
\* non-deleted messages of the text and forum channels and the targets of the
\* member-update audit-log entries dated inside the window.
C10_ActiveUsersIsUnion ==
    (rev = "server" /\ Computed("activeUsers")) =>
        results["activeUsers"] =
            Cardinality({ m.author : m \in Counted }
                        \cup { u.target : u \in { v \in world.updates : InWindow(v.at) } })

(***************************************************************************)
(* Project links                                                           *)
(***************************************************************************)
\* A message content is a sequence of tokens.  A token is a plain word, a bare
\* domain (only the looser expression of server.js 489 matches it) or a URL with a
\* scheme; `frag` tells whether the token holds '.cerebras.ai', in lower case or in
\* mixed case.
Tokens ==
    { [kind |-> "word", name |-> 0, frag |-> "none"],
      [kind |-> "bare", name |-> 1, frag |-> "none"],
      [kind |-> "http", name |-> 1, frag |-> "none"],
      [kind |-> "http", name |-> 2, frag |-> "lower"],
      [kind |-> "http", name |-> 2, frag |-> "mixed"] }

\* String.prototype.toLowerCase on the text of a token
toLowerCase(token) == [token EXCEPT !.frag = IF @ = "mixed" THEN "lower" ELSE @]

\* msg.content.toLowerCase().includes('.cerebras.ai')
IncludesExcludedDomain(content) ==
    \E i \in DOMAIN content : toLowerCase(content[i]).frag = "lower"

\* msg.content.match(urlRegex) || []
MatchUrls(r, content) ==
    SelectSeq(content, LAMBDA token :
        token.kind = "http" \/ (r = "server" /\ token.kind = "bare"))

\* getProjectLinks(startDate, endDate): the Set of links, over the designated channel
getProjectLinks(r, chat, s, e) ==
    LET messages == getAllChannelMessages(r, chat, chat.channels[1], s, e)
        links(msg) == MatchUrls(r, msg.content)
        kept == { i \in DOMAIN messages :
                    /\ r = "backend" \/ ~messages[i].deleted
                    /\ ~IncludesExcludedDomain(messages[i].content) }
    IN  UNION { { links(messages[i])[k] : k \in DOMAIN links(messages[i]) } : i \in kept }

(***************************************************************************)
(* The links specification: the designated channel, a window, and          *)
(* getProjectLinks of one revision.                                        *)
(***************************************************************************)
MaxTokens == 2

Contents == UNION { [1..n -> Tokens] : n \in 0..MaxTokens }

\* a message of the designated channel: never deleted, or named by a deletion entry
\* and still served
LinkMessageLists ==
    { [i \in DOMAIN f |->
          [id |-> i, place |-> 1, ts |-> f[i][1], author |-> 1, reactions |-> <<>>,
           content |-> f[i][2], del |-> IF f[i][3] THEN {f[i][1]} ELSE {}, listed |-> TRUE]] :
        f \in { g \in UNION { [1..n -> Times \X Contents \X BOOLEAN] : n \in 0..MaxMsgs } :
                  \A i \in DOMAIN g : \A j \in DOMAIN g : i < j => g[i][1] <= g[j][1] } }

LinksInit ==
    /\ rev \in MessageRevs
    /\ fetcher = "projectLinks"
    /\ startDate \in 1..(MaxTime - 2)
    /\ endDate \in startDate..(MaxTime - 1)
    /\ \E m \in LinkMessageLists :
         world = [kind |-> "chat", channels |-> <<[id |-> 1, type |-> TEXT]>>,
                  threads |-> <<>>, msgs |-> m, updates |-> {}]
    /\ results = NoResults
    /\ upstream = <<>>
    /\ pc = "idle"
    /\ cursor = 0
    /\ acc = <<>>
    /\ rstate = "none"
    /\ rateLimitDelay = 100
    /\ sheet = <<>>
    /\ requests = <<>>
    /\ issued = <<>>
    /\ slept = <<>>
    /\ outcome = "pending"
    /\ seen = {}
    /\ surfaced = FALSE

\* the handler awaits getProjectLinks(startDate, endDate) and counts the list
GetProjectLinks ==
    /\ fetcher = "projectLinks"
    /\ ~Computed("projectLinks")
    /\ LET projectLinks == getProjectLinks(rev, world, startDate, endDate)
       IN  results' = results @@ ("projectLinks" :> projectLinks)
                              @@ ("projectsShowcased" :> Cardinality(projectLinks))
    /\ UNCHANGED <<sheet, requests, rev, startDate, endDate, world>>
    /\ UNCHANGED fetchVars

LinksNext == GetProjectLinks

SpecLinks == LinksInit /\ [][LinksNext]_vars

\* C11: getProjectLinks returns exactly the URLs of the in-window, non-deleted
\* messages of the designated channel that do not hold the excluded fragment (in any
\* case), each once; a URL sharing its message with an excluded URL is still returned.
C11_LinksAreTheUrlsNotExcluded ==
    Computed("projectLinks") =>
        /\ results["projectLinks"] =
             UNION { { m.content[k] :
                         k \in { n \in DOMAIN m.content :
                                   /\ MatchUrls(rev, <<m.content[n]>>) # <<>>
                                   /\ m.content[n].frag = "none" } } :
                     m \in { x \in Posted : InWindow(x.ts) /\ ~MarkedDeleted(x) } }
        /\ results["projectsShowcased"] = Cardinality(results["projectLinks"])

(***************************************************************************)
(* updateGoogleSheet: the snapshot row is written with three separate      *)
(* calls of the Sheets API (values.get, values.update of the row, and, in  *)
(* the revisions that insert under the header, values.update of the rows   *)
(* moved down).  A row is its label (column A) and its metrics (columns B  *)
(* to H, written together as newRow).                                       *)
(***************************************************************************)
Procs == {1, 2}
MaxRows == 2
Labels == 1..(MaxRows + 1)

\* revisions that look the label up and insert a new one under the header
UpsertRevs == {"part_001", "server", "server2"}
\* revisions that look the label up and write a new one after the last row
AppendRevs == {"backend", "netlify"}
\* the revision that never looks the label up
InsertRevs == {"part_000"}
SheetRevs == UpsertRevs \cup AppendRevs \cup InsertRevs

Header == [label |-> 0, metrics |-> 0]

\* rows.findIndex(row => row[0] === weekRange), 0-based, -1 when absent
FindIndex(rows, weekRange) ==
    IF \E i \in DOMAIN rows : rows[i].label = weekRange
    THEN (CHOOSE i \in DOMAIN rows :
             /\ rows[i].label = weekRange
             /\ \A j \in 1..(i - 1) : rows[j].label # weekRange) - 1
    ELSE -1

\* the row index the revision computes from what it has read
ExistingRowIndex(r, rows, weekRange) ==
    IF r \in InsertRevs THEN -1
    ELSE IF r \in AppendRevs /\ FindIndex(rows, weekRange) = -1 THEN Len(rows)
    ELSE FindIndex(rows, weekRange)

\* rows.slice(1)
Slice1(rows) == IF rows = <<>> THEN <<>> ELSE Tail(rows)

\* a write that pushes the rows below the range down instead of overwriting them
ValuesInsert(s, from, values) ==
    SubSeq(s, 1, from - 1) \o values \o SubSeq(s, from, Len(s))

\* values.update on rows from..(from + Len(values) - 1): the cells of the range
\* are overwritten, every other row is left as it is
ValuesUpdate(s, from, values) ==
    [i \in 1..(IF Len(s) > from + Len(values) - 1 THEN Len(s) ELSE from + Len(values) - 1) |->
        IF i >= from /\ i < from + Len(values) THEN values[i - from + 1] ELSE s[i]]

NewRow(p) == [label |-> requests[p].weekRange, metrics |-> requests[p].metrics]

InFlight(p) == requests[p].pc \in {"row", "shift"}

DataRows ==
    { rows \in UNION { [1..n -> [label : Labels, metrics : {1}]] : n \in 0..MaxRows } :
        \A i, j \in DOMAIN rows : i # j => rows[i].label # rows[j].label }

SheetInit ==
    /\ rev \in SheetRevs
    /\ \E rows \in DataRows : sheet = <<Header>> \o rows
    /\ \E l \in [Procs -> Labels] :
         requests = [p \in Procs |->
                       [pc |-> "get", weekRange |-> l[p], metrics |-> 10 + p,
                        rows |-> <<>>, rowIndex |-> -1, overlap |-> FALSE]]
    /\ startDate = 0
    /\ endDate = 0
    /\ world = NoWorld
    /\ results = NoResults
    /\ fetcher = "none"
    /\ upstream = <<>>
    /\ pc = "idle"
    /\ cursor = 0
    /\ acc = <<>>
    /\ rstate = "none"
    /\ rateLimitDelay = 100
    /\ issued = <<>>
    /\ slept = <<>>
    /\ outcome = "pending"
    /\ seen = {}
    /\ surfaced = FALSE

\* await sheets.spreadsheets.values.get(...); rows, the row index
ValuesGet(p) ==
    /\ requests[p].pc = "get"
    /\ requests' =
         [q \in Procs |->
            IF q = p
            THEN [requests[p] EXCEPT !.pc = "row",
                                     !.rows = sheet,
                                     !.rowIndex = ExistingRowIndex(rev, sheet, requests[p].weekRange),
                                     !.overlap = \E o \in Procs \ {p} : InFlight(o)]
            ELSE IF InFlight(q) THEN [requests[q] EXCEPT !.overlap = TRUE]
            ELSE requests[q]]
    /\ UNCHANGED <<sheet, rev, startDate, endDate, world, results>>
    /\ UNCHANGED fetchVars

\* await sheets.spreadsheets.values.update of one row: the row found (or the row
\* after the last one), else row 2
UpdateRow(p) ==
    /\ requests[p].pc = "row"
    /\ LET found == requests[p].rowIndex # -1
           at == IF found THEN requests[p].rowIndex + 1 ELSE 2
       IN  /\ sheet' = ValuesUpdate(sheet, at, <<NewRow(p)>>)
           /\ requests' = [requests EXCEPT ![p].pc =
                              IF ~found /\ Len(requests[p].rows) > 1 THEN "shift" ELSE "done"]
    /\ UNCHANGED <<rev, startDate, endDate, world, results>>
    /\ UNCHANGED fetchVars

\* await sheets.spreadsheets.values.update of A3:H(rows.length + 1) with rows.slice(1)
UpdateShifted(p) ==
    /\ requests[p].pc = "shift"
    /\ sheet' = ValuesUpdate(sheet, 3, Slice1(requests[p].rows))
    /\ requests' = [requests EXCEPT ![p].pc = "done"]
    /\ UNCHANGED <<rev, startDate, endDate, world, results>>
    /\ UNCHANGED fetchVars

\* the update of the moved rows is rejected: updateGoogleSheet throws, the rows it
\* holds in memory are written nowhere
UpdateShiftedFails(p) ==
    /\ requests[p].pc = "shift"
    /\ requests' = [requests EXCEPT ![p].pc = "failed"]
    /\ UNCHANGED <<sheet, rev, startDate, endDate, world, results>>
    /\ UNCHANGED fetchVars

SheetNext ==
    \E p \in Procs :
        \/ ValuesGet(p)
        \/ UpdateRow(p)
        \/ UpdateShifted(p)
        \/ UpdateShiftedFails(p)

SpecSheet == SheetInit /\ [][SheetNext]_vars

\* this step is the last write of the request, and no other request ran between
\* its read and this write: the sheet before the upsert is requests[p].rows
Completes(p) ==
    /\ requests[p].pc # "done"
    /\ requests'[p].pc = "done"
    /\ ~requests'[p].overlap

\* no request is between its read and its last write, and none ever overlapped another
Quiescent ==
    \A p \in Procs : requests[p].pc \in {"get", "done"} /\ ~requests[p].overlap

HasLabel(rows, weekRange) == \E i \in DOMAIN rows : rows[i].label = weekRange

UniqueLabels(rows) ==
    \A i, j \in DOMAIN rows : i # j => rows[i].label # rows[j].label

\* C12: an upsert of a label already in the first column overwrites that row in
\* place (same number of rows, every other row unchanged), and after any sequence
\* of sequential upserts the sheet holds at most one row per label.
C12_PresentLabelOverwrittenInPlace ==
    /\ [][\A p \in Procs :
            Completes(p) /\ HasLabel(requests[p].rows, requests[p].weekRange) =>
                sheet' = [requests[p].rows EXCEPT
                            ![FindIndex(requests[p].rows, requests[p].weekRange) + 1] = NewRow(p)]]_vars
    /\ [](Quiescent => UniqueLabels(sheet))

\* C13: an upsert of a label not in the first column puts the new row at row 2 and
\* moves every prior data row down by one, order and contents kept, so the label
\* inserted last is the first data row.
C13_NewLabelInsertedUnderHeader ==
    [][\A p \in Procs :
          Completes(p) /\ ~HasLabel(requests[p].rows, requests[p].weekRange) =>
              sheet' = <<requests[p].rows[1], NewRow(p)>> \o Slice1(requests[p].rows)]_vars

\* two requests for different labels, both absent from the sheet, have both read
\* the same rows (neither had written) and both have completed
RacedOnNewLabels ==
    /\ rev \in UpsertRevs
    /\ \A p \in Procs : requests[p].pc = "done"
    /\ requests[1].rows = requests[2].rows
    /\ requests[1].weekRange # requests[2].weekRange
    /\ \A p \in Procs : ~HasLabel(requests[p].rows, requests[p].weekRange)

\* C14: the upsert reads, then writes, with nothing held in between: when two
\* requests for different new labels have read before either wrote, both
\* complete, and the final sheet is the one a single request would have left:
\* the row of the other request is lost.
C14_RacingUpsertsLoseOneRow ==
    RacedOnNewLabels =>
        /\ sheet \in { <<requests[p].rows[1], NewRow(p)>> \o Slice1(requests[p].rows) : p \in Procs }
        /\ \E p \in Procs : ~HasLabel(sheet, requests[p].weekRange)

C14_Witness ==
    /\ RacedOnNewLabels
    /\ Len(requests[1].rows) > 1
    /\ ~HasLabel(sheet, requests[1].weekRange)
    /\ HasLabel(sheet, requests[2].weekRange)

(***************************************************************************)
(* The collection handler: the upstream calls it awaits, in order, with    *)
(* the try/catch that encloses each of them.  A step of the plan is one    *)
(* makeDiscordRequest call; onNull and onError say how far the enclosing   *)
(* catch or null test moves the control (0: nothing encloses the call, the *)
(* error reaches the handler).  A message listing is walked for two pages, *)
(* a thread listing names one thread.  The fetchers that server.js starts  *)
(* together with Promise.all share no state; their calls are taken in the  *)
(* order of the array, and the first rejection ends the handler's try.     *)
(***************************************************************************)
MaxFaults == 1
MaxChannels == 2
Channels == 1..MaxChannels

CollectRevs == {"backend", "netlify", "part_000", "part_001", "server", "server2"}
\* exports.handler: the response is the value returned at the end
SyncRevs == {"backend", "netlify"}
\* app.post('/collect-analytics'): the response is sent with res.json
ExpressRevs == CollectRevs \ SyncRevs
\* getChannelMessages answers `if (!batch) return []`
DropRevs == {"backend", "part_000", "netlify"}

Awaited(kind, metric, chan, ignore403, onNull, onError) ==
    [kind |-> kind, metric |-> metric, chan |-> chan, ignore403 |-> ignore403,
     onNull |-> onNull, onError |-> onError]

\* a call whose failure is caught where it is made
Swallowed(kind, metric, chan) == Awaited(kind, metric, chan, FALSE, 1, 1)

\* a call outside every try/catch of the fetchers
Bare(kind, metric, chan) == Awaited(kind, metric, chan, FALSE, 0, 0)

\* getChannelMessages / getAllChannelMessages(channel.id, startDate, endDate)
ScanChannel(r, metric, c) ==
    IF r = "server"
    THEN << Bare("audit", metric, c),
            Awaited("info", metric, c, TRUE, 7, 7),
            Awaited("page", metric, c, TRUE, 2, 2),
            Awaited("page", metric, c, TRUE, 1, 1),
            Awaited("active", metric, c, TRUE, 2, 2),
            Awaited("threadPage", metric, c, TRUE, 1, 1),
            Awaited("archivedPublic", metric, c, TRUE, 1, 2),
            Awaited("archivedPrivate", metric, c, TRUE, 1, 1) >>
    ELSE (IF r = "server2" THEN <<Bare("audit", metric, c)>> ELSE <<>>)
         \o << Awaited("page", metric, c, TRUE, 2, 2),
               Awaited("page", metric, c, TRUE, 1, 1) >>

RECURSIVE ScanChannels(_, _, _)
ScanChannels(r, metric, c) ==
    IF c > MaxChannels THEN <<>>
    ELSE ScanChannel(r, metric, c) \o ScanChannels(r, metric, c + 1)

\* getActiveUsers, getMessagesPosted, getReactions: the channel list, the audit
\* log the metric itself reads, then every channel
WalkChannels(r, metric) ==
    <<Bare("channels", metric, 0)>>
    \o (IF r \in {"server", "server2"} /\ metric \in {"activeUsers", "messagesPosted"}
        THEN <<Bare("audit", metric, 0)>> ELSE <<>>)
    \o ScanChannels(r, metric, 1)

\* getTotalMembers then getNewMembers
MemberCalls(r, weekInProgress) ==
    CASE r = "backend" ->
           <<Bare(IF weekInProgress THEN "guild" ELSE "members", "totalMembers", 0),
             Bare("members", "newMembers", 0)>>
      [] r = "part_000" ->
           <<Bare("members", "totalMembers", 0), Bare("members", "newMembers", 0)>>
      [] r = "part_001" ->
           <<Bare("guild", "totalMembers", 0)>>
           \o (IF weekInProgress THEN <<>> ELSE <<Bare("members", "totalMembers", 0)>>)
           \o <<Bare("members", "newMembers", 0)>>
      [] r = "server" ->
           <<Bare("members", "totalMembers", 0), Bare("audit", "totalMembers", 0),
             Bare("members", "newMembers", 0)>>
      [] r = "server2" ->
           <<Bare("guild", "totalMembers", 0)>>
           \o (IF weekInProgress THEN <<>>
               ELSE <<Bare("audit", "totalMembers", 0), Bare("audit", "totalMembers", 0)>>)
           \o <<Bare("audit", "newMembers", 0)>>

\* the calls of one collection, in the order the handler awaits them
Plan(r, weekInProgress) ==
    IF r = "netlify" THEN <<Bare("bot", "none", 0)>>
    ELSE (IF r = "backend" THEN <<Bare("bot", "none", 0)>> ELSE <<>>)
         \o MemberCalls(r, weekInProgress)
         \o WalkChannels(r, "activeUsers")
         \o WalkChannels(r, "messagesPosted")
         \o WalkChannels(r, "reactions")
         \o ScanChannel(r, "projectLinks", 1)

\* updateGoogleSheet run alone: what the sheet holds after it
Upsert(r, rows, newRow) ==
    LET rowIndex == ExistingRowIndex(r, rows, newRow.label)
    IN  IF rowIndex # -1 THEN ValuesUpdate(rows, rowIndex + 1, <<newRow>>)
        ELSE IF Len(rows) > 1
        THEN ValuesUpdate(ValuesUpdate(rows, 2, <<newRow>>), 3, Slice1(rows))
        ELSE ValuesUpdate(rows, 2, <<newRow>>)

\* the response is sent when the collection has ended
AcknowledgesLast(r) == FALSE

\* res.json({ message: 'Analytics collection started' }) is the handler's first statement
AcknowledgesFirst(r) == r \in ExpressRevs

NoScan == [chan |-> 0, kept |-> 0, forbidden |-> FALSE]

CollectInit ==
    /\ rev \in CollectRevs
    /\ \E method \in {"POST", "GET"}, weekRange \in {"valid", "malformed", "missing"},
          weekInProgress \in BOOLEAN :
         /\ rev \in ExpressRevs => method = "POST"
         /\ requests = [pc |-> "start", at |-> 1, method |-> method, weekRange |-> weekRange,
                        plan |-> Plan(rev, weekInProgress), responses |-> <<>>,
                        failed |-> FALSE, early |-> FALSE, reissue |-> FALSE, faults |-> {},
                        scan |-> NoScan, lastScan |-> NoScan, walked |-> 0]
    /\ sheet = <<Header, [label |-> 1, metrics |-> 1]>>
    /\ issued = <<>>
    /\ startDate = 0
    /\ endDate = 0
    /\ world = NoWorld
    /\ results = NoResults
    /\ fetcher = "none"
    /\ upstream = <<>>
    /\ pc = "idle"
    /\ cursor = 0
    /\ acc = <<>>
    /\ rstate = "none"
    /\ rateLimitDelay = 100
    /\ slept = <<>>
    /\ outcome = "pending"
    /\ seen = {}
    /\ surfaced = FALSE

\* the handler up to its first await: the method and body checks of the function
\* handlers, the acknowledgment and parseDateRange of the Express handlers
Receive ==
    /\ requests.pc = "start"
    /\ requests' =
         IF rev \in SyncRevs /\ requests.method # "POST"
         THEN [requests EXCEPT !.pc = "done", !.responses = <<405>>]
         ELSE IF rev = "backend" /\ requests.weekRange = "missing"
         THEN [requests EXCEPT !.pc = "done", !.responses = <<400>>]
         ELSE LET answered == IF AcknowledgesFirst(rev) THEN <<"started">> ELSE <<>>
              IN  IF rev \in ExpressRevs /\ requests.weekRange = "missing"
                  THEN \* weekRange.split of undefined throws inside the try
                       [requests EXCEPT !.pc = "done", !.failed = TRUE, !.responses = answered]
                  ELSE [requests EXCEPT !.pc = "run", !.responses = answered]
    /\ UNCHANGED <<rateLimitDelay, sheet, issued, rev, startDate, endDate, world, results>>
    /\ UNCHANGED <<fetcher, upstream, pc, cursor, acc, rstate, slept, outcome, seen, surfaced>>

\* where the control is after the call at requests.at moved it by n steps
MoveBy(req, n, keeps, status) ==
    LET plan == req.plan
        step == plan[req.at]
        to == req.at + n
        inScan == step.chan # 0
        forbidden == req.scan.forbidden \/ (step.kind = "page" /\ status = 403)
        scanEnds == /\ inScan
                    /\ \/ to > Len(plan)
                       \/ plan[to].chan # step.chan
                       \/ plan[to].metric # step.metric
        scanNow == [chan |-> step.chan, kept |-> keeps, forbidden |-> forbidden]
    IN  [req EXCEPT !.at = to,
                    !.pc = IF to > Len(plan) THEN "write" ELSE "run",
                    !.scan = IF ~inScan \/ scanEnds THEN NoScan ELSE scanNow,
                    !.lastScan = IF scanEnds THEN scanNow ELSE req.lastScan,
                    !.walked = IF scanEnds THEN req.walked + 1 ELSE req.walked]

\* one request of makeDiscordRequest for the call at requests.at, and what the
\* caller does with its outcome
Request(status) ==
    /\ requests.pc = "run"
    /\ status \notin {200, 429} => Cardinality(requests.faults) < MaxFaults
    /\ LET step == requests.plan[requests.at]
           how == HandleResponse(rev, status, step.ignore403)
           req == [requests EXCEPT
                     !.early = requests.early \/ requests.responses = <<>>,
                     !.reissue = how = "retry",
                     !.faults = IF status \in {200, 429} THEN requests.faults
                                ELSE requests.faults \cup
                                       {[kind |-> step.kind, chan |-> step.chan,
                                         status |-> status, outcome |-> how]}]
           isPage == step.kind \in {"page", "threadPage"}
       IN  /\ requests' =
                CASE how = "retry" -> req
                  [] how = "body" ->
                       MoveBy(req, 1, req.scan.kept + (IF isPage THEN 1 ELSE 0), status)
                  [] how = "null" ->
                       MoveBy(req, step.onNull,
                              IF step.kind = "page" /\ rev \in DropRevs THEN 0 ELSE req.scan.kept,
                              status)
                  [] how = "error" ->
                       IF step.onError = 0
                       THEN [req EXCEPT !.pc = "done", !.failed = TRUE,
                                        !.responses = IF rev \in SyncRevs THEN <<500>>
                                                      ELSE req.responses]
                       ELSE MoveBy(req, step.onError, req.scan.kept, status)
    /\ UNCHANGED <<rateLimitDelay, sheet, issued, rev, startDate, endDate, world, results>>
    /\ UNCHANGED <<fetcher, upstream, pc, cursor, acc, rstate, slept, outcome, seen, surfaced>>

\* the end of the handler: updateGoogleSheet(weekRange, metrics), then the
\* response of the function handlers
Finish ==
    /\ requests.pc = "write"
    /\ LET label == IF requests.weekRange = "valid" THEN 1 ELSE 2
           written == rev # "netlify"
       IN  /\ sheet' = IF written THEN Upsert(rev, sheet, [label |-> label, metrics |-> 2])
                       ELSE sheet
           /\ requests' = [requests EXCEPT
                             !.pc = "done",
                             !.responses = IF rev \in SyncRevs THEN <<200>>
                                           ELSE IF AcknowledgesFirst(rev) THEN requests.responses
                                           ELSE <<"started">>]
    /\ UNCHANGED <<rateLimitDelay, issued, rev, startDate, endDate, world, results>>
    /\ UNCHANGED <<fetcher, upstream, pc, cursor, acc, rstate, slept, outcome, seen, surfaced>>

CollectNext ==
    \/ Receive
    \/ \E status \in Statuses : Request(status)
    \/ Finish

SpecCollect == CollectInit /\ [][CollectNext]_vars

(***************************************************************************)
(* Claims about the handler                                                *)
(***************************************************************************)
\* the row of this collection is in the sheet
RowWritten == \E i \in DOMAIN sheet : sheet[i].metrics = 2

\* the channel scans of one collection: three metrics over every channel, and
\* the designated channel for the links
TotalScans == 3 * MaxChannels + 1

\* the collection went through every channel and wrote its row
Completed ==
    /\ ~requests.failed
    /\ requests.pc = "done" => RowWritten /\ requests.walked = TotalScans

\* C15: in the Express revisions the request is answered 'started' exactly once,
\* before any upstream request; success, an upstream failure or a missing or
\* malformed weekRange neither change the response nor add a second one.
C15_AcknowledgedOnceBeforeUpstream ==
    rev \in ExpressRevs =>
        /\ requests.pc = "start" => requests.responses = <<>>
        /\ requests.pc # "start" => requests.responses = <<"started">>
        /\ ~requests.early

C15_Witness ==
    /\ rev \in ExpressRevs
    /\ requests.pc = "done"
    /\ requests.failed
    /\ requests.weekRange = "malformed"
    /\ requests.faults # {}
    /\ requests.responses = <<"started">>

\* C16: a non-success status other than 429 on the bot identity, guild info,
\* channel list or member list call is not retried; it reaches the handler's
\* catch, the collection ends failed (500 from the function handler, nothing but
\* a log from the Express handlers) and no row is written.
C16_FatalOutsideChannels ==
    \A f \in requests.faults :
        f.kind \in {"bot", "guild", "channels", "members"} =>
            /\ requests.pc = "done"
            /\ requests.failed
            /\ ~requests.reissue
            /\ requests.responses = IF rev \in SyncRevs THEN <<500>> ELSE <<"started">>
            /\ ~RowWritten

C16_Witness ==
    /\ rev = "part_000"
    /\ requests.pc = "done"
    /\ \E f \in requests.faults : f.kind = "members" /\ f.status = 403
    /\ ~RowWritten

\* C17: in server.js a failure of any call made on behalf of one channel or
\* thread (a message page, a thread listing, the deletion audit-log read inside
\* getAllChannelMessages) is isolated: the remaining channels are walked, the
\* metric and the collection complete.
C17_ChannelFailuresIsolated ==
    rev \in {"server", "server2"} =>
        \A f \in requests.faults : f.chan # 0 => Completed

\* C18: a channel whose message listing answers 403 contributes no messages, no
\* error reaches the metric fetcher, the remaining channels are scanned and the
\* row is written.
C18_ForbiddenChannelIsEmpty ==
    rev \in {"backend", "part_001", "netlify"} =>
        /\ requests.lastScan.forbidden => requests.lastScan.kept = 0
        /\ \A f \in requests.faults : f.kind = "page" /\ f.status = 403 => Completed

(***************************************************************************)
(* The member metrics at a current time: every revision's getTotalMembers  *)
(* and getNewMembers, with the upstream reads each of them makes.  The     *)
(* guild has seen the joins and leaves up to now.                          *)
(***************************************************************************)
\* moment().tz(LOCAL_TIMEZONE).isBefore(endDate); isSameOrBefore in part_001 and server.js
isWeekInProgress(r, now, e) ==
    IF r \in {"backend", "netlify", "part_000"} THEN isBefore(adjustToLocalTime(now), e)
    ELSE isSameOrBefore(adjustToLocalTime(now), e)

\* guildInfo.approximate_member_count
ApproximateMemberCount(people) == Len(LiveMembers(people))

\* members.filter(member => adjustToLocalTime(member.joined_at).isSameOrBefore(endDate)).length
JoinedByEnd(people, e) ==
    Len(SelectSeq(getAllGuildMembers(people), LAMBDA m :
            isSameOrBefore(adjustToLocalTime(m.joined_at), e)))

\* getHistoricalMemberCount(endDate) of server.js, currentCount the count the guild
\* info reports
getHistoricalMemberCountFrom(currentCount, people, e) ==
    LET joinLogs == getAllAuditLogs(MemberAuditEntries(people), MEMBER_ADD, e)
        leaveLogs == getAllAuditLogs(MemberAuditEntries(people), MEMBER_REMOVE, e)
    IN  currentCount
        - Len(SelectSeq(joinLogs, LAMBDA x : x.created_at > e))
        + Len(SelectSeq(leaveLogs, LAMBDA x : x.created_at > e))

getHistoricalMemberCount(people, e) ==
    getHistoricalMemberCountFrom(ApproximateMemberCount(people), people, e)

\* getTotalMembers of each revision, currentCount the count the guild info reports
getTotalMembersFrom(r, currentCount, people, s, e, now) ==
    CASE r \in {"backend", "netlify", "part_001"} ->
           IF isWeekInProgress(r, now, e) THEN currentCount
           ELSE JoinedByEnd(people, e)
      [] r = "part_000" -> JoinedByEnd(people, e)
      [] r = "server" -> getTotalMembers(people, s, e)
      [] r = "server2" ->
           IF isWeekInProgress(r, now, e) THEN currentCount
           ELSE getHistoricalMemberCountFrom(currentCount, people, e)

getTotalMembersAt(r, people, s, e, now) ==
    getTotalMembersFrom(r, ApproximateMemberCount(people), people, s, e, now)

\* getNewMembers of each revision
getNewMembersAt(r, people, s, e) ==
    IF r = "server2" THEN getNewMembersAudit(people, s, e) ELSE getNewMembersLive(people, s, e)

\* the upstream reads a member metric makes
ReadsOf(r, metric, now, e) ==
    LET calls == IF r = "netlify"
                 THEN MemberCalls("backend", isWeekInProgress(r, now, e))
                 ELSE MemberCalls(r, isWeekInProgress(r, now, e))
    IN  SelectSeq([i \in DOMAIN calls |-> [endpoint |-> calls[i].kind, metric |-> calls[i].metric]],
                  LAMBDA c : c.metric = metric)

TotalsInit ==
    /\ rev \in CollectRevs
    /\ startDate \in Times
    /\ endDate \in startDate..MaxTime
    /\ \E now \in Times :
         \E g \in { x \in Guilds : \A i \in DOMAIN x :
                       /\ x[i].joined <= now
                       /\ \A t \in x[i].left : t <= now } :
            world = [kind |-> "guild", people |-> g, now |-> now]
    /\ results = NoResults
    /\ fetcher = "none"
    /\ upstream = <<>>
    /\ pc = "idle"
    /\ cursor = 0
    /\ acc = <<>>
    /\ rstate = "none"
    /\ rateLimitDelay = 100
    /\ sheet = <<>>
    /\ requests = <<>>
    /\ issued = <<>>
    /\ slept = <<>>
    /\ outcome = "pending"
    /\ seen = {}
    /\ surfaced = FALSE

\* await getTotalMembers(endDate)
TotalMembersAt ==
    /\ ~Computed("totalMembers")
    /\ results' = results @@ ("totalMembers" :>
                     getTotalMembersAt(rev, world.people, startDate, endDate, world.now))
    /\ issued' = issued \o ReadsOf(rev, "totalMembers", world.now, endDate)
    /\ UNCHANGED <<rateLimitDelay, sheet, requests, rev, startDate, endDate, world>>
    /\ UNCHANGED <<fetcher, upstream, pc, cursor, acc, rstate, slept, outcome, seen, surfaced>>

\* await getNewMembers(startDate, endDate), the handler's next metric
NewMembersAt ==
    /\ Computed("totalMembers")
    /\ ~Computed("newMembers")
    /\ results' = results @@ ("newMembers" :>
                     getNewMembersAt(rev, world.people, startDate, endDate))
    /\ issued' = issued \o ReadsOf(rev, "newMembers", world.now, endDate)
    /\ UNCHANGED <<rateLimitDelay, sheet, requests, rev, startDate, endDate, world>>
    /\ UNCHANGED <<fetcher, upstream, pc, cursor, acc, rstate, slept, outcome, seen, surfaced>>

TotalsNext == TotalMembersAt \/ NewMembersAt

SpecTotals == TotalsInit /\ [][TotalsNext]_vars

\* the endpoints read on behalf of getTotalMembers
TotalReads == { issued[i].endpoint : i \in { k \in DOMAIN issued : issued[k].metric = "totalMembers" } }

\* C19: whenever the current time is before the window end, getTotalMembers
\* returns the approximate live count and reads neither the member list nor the
\* audit log; a historical count is reconstructed only for a window that has ended.
C19_FastPathWhileInProgress ==
    Computed("totalMembers") =>
        /\ world.now < endDate =>
              /\ results["totalMembers"] = ApproximateMemberCount(world.people)
              /\ TotalReads \cap {"members", "audit"} = {}
        /\ TotalReads \cap {"members", "audit"} # {} => world.now >= endDate

\* the live members whose join instant lies in [lo, hi]
JoinedWithin(lo, hi) ==
    { i \in DOMAIN world.people :
        /\ world.people[i].left = {}
        /\ world.people[i].joined >= lo
        /\ world.people[i].joined <= hi }

\* C20: the member filters of backend.js and part_001 use the closed interval: a
\* join at the window end counts in the historical total and in new members, a
\* join at the window start counts in new members, a join one instant before the
\* start or after the end does not count in new members.
C20_MemberFiltersClosed ==
    rev \in {"backend", "part_001"} =>
        /\ Computed("newMembers") =>
              results["newMembers"] = Cardinality(JoinedWithin(startDate, endDate))
        /\ Computed("totalMembers") /\ ~isWeekInProgress(rev, world.now, endDate) =>
              results["totalMembers"] = Cardinality(JoinedWithin(0, endDate))

C20_Witness ==
    /\ rev \in {"backend", "part_001"}
    /\ Computed("newMembers")
    /\ Computed("totalMembers")
    /\ ~isWeekInProgress(rev, world.now, endDate)
    /\ startDate < endDate
    /\ JoinedWithin(endDate, endDate) # {}
    /\ JoinedWithin(startDate - 1, startDate - 1) # {}
    /\ results["newMembers"] = 1
    /\ results["totalMembers"] = 2

(***************************************************************************)
(* A metric fetcher invoked twice for one window over one guild.  The      *)
(* fetchers keep nothing between invocations (their cursors, delays and    *)
(* lists are locals); what they read besides the upstream is the clock of  *)
(* isWeekInProgress.  The guild info reports a member count of its own.    *)
(***************************************************************************)
TwiceMetrics == {"totalMembers", "newMembers"}

\* guildInfo.approximate_member_count: the number of listed members, or one off
GuildCounts(people) == { Len(LiveMembers(people)), Len(LiveMembers(people)) + 1 }

TwiceInit ==
    /\ rev \in CollectRevs
    /\ fetcher \in TwiceMetrics
    /\ startDate \in Times
    /\ endDate \in startDate..MaxTime
    /\ \E now \in Times :
         \E g \in { x \in Guilds : \A i \in DOMAIN x :
                       /\ x[i].joined <= now
                       /\ \A t \in x[i].left : t <= now } :
           \E c \in GuildCounts(g) :
              world = [kind |-> "guild", people |-> g, now |-> now,
                       approximate_member_count |-> c]
    /\ results = <<>>
    /\ seen = {}
    /\ upstream = <<>>
    /\ pc = "idle"
    /\ cursor = 0
    /\ acc = <<>>
    /\ rstate = "none"
    /\ rateLimitDelay = 100
    /\ sheet = <<>>
    /\ requests = <<>>
    /\ issued = <<>>
    /\ slept = <<>>
    /\ outcome = "pending"
    /\ surfaced = FALSE

\* the value one invocation returns when its requests are served
Invocation(r, metric, guild, s, e) ==
    IF metric = "totalMembers"
    THEN getTotalMembersFrom(r, guild.approximate_member_count, guild.people, s, e, guild.now)
    ELSE getNewMembersAt(r, guild.people, s, e)

\* await getTotalMembers(...) / getNewMembers(...): the invocation returns; with
\* limited, its first request was answered 429 and reissued by makeDiscordRequest
Invoke(limited) ==
    /\ Len(results) < 2
    /\ limited => rev # "netlify"
    /\ results' = Append(results, Invocation(rev, fetcher, world, startDate, endDate))
    /\ seen' = IF limited THEN seen \cup {429} ELSE seen
    /\ UNCHANGED <<rateLimitDelay, sheet, requests, rev, startDate, endDate, world>>
    /\ UNCHANGED <<fetcher, upstream, pc, cursor, acc, rstate, issued, slept, outcome, surfaced>>

\* an invocation whose request is answered with an error status throws: nothing
\* is returned and nothing is kept
InvokeFails(status) ==
    /\ Len(results) < 2
    /\ HandleResponse(rev, status, FALSE) = "error"
    /\ surfaced' = TRUE
    /\ UNCHANGED <<rateLimitDelay, sheet, requests, rev, startDate, endDate, world, results>>
    /\ UNCHANGED <<fetcher, upstream, pc, cursor, acc, rstate, issued, slept, outcome, seen>>

\* time passes; the upstream data stay as they are
Elapse ==
    /\ world.now < MaxTime
    /\ world' = [world EXCEPT !.now = @ + 1]
    /\ UNCHANGED <<sheet, requests, rev, startDate, endDate, results>>
    /\ UNCHANGED fetchVars

TwiceNext ==
    \/ \E limited \in BOOLEAN : Invoke(limited)
    \/ \E status \in Statuses : InvokeFails(status)
    \/ Elapse

SpecTwice == TwiceInit /\ [][TwiceNext]_vars

\* C21: a metric fetcher invoked twice for the same window over identical upstream
\* data returns the same value, whatever time elapsed and whichever rate-limit or
\* error answers came before or between the two invocations.
C21_SameValueTwice ==
    Len(results) = 2 => results[1] = results[2]

(***************************************************************************)
(* Claims about the audit-log listing                                      *)
(***************************************************************************)
\* the audit log of one action type as the API serves it, newest first
AuditLogOf(entries, actionType) == SortDesc({ x \in entries : x.action_type = actionType })

\* C22: getAllAuditLogs(actionType, startDate) returns the entries of that action
\* type created at or after startDate, all of them and no other, also those of a
\* page that holds older entries as well (read after getNewMembers of the second
\* revision of server.js has listed the joins).
C22_AuditListingComplete ==
    (rev = "server2" /\ Computed("newMembers")) =>
        getAllAuditLogs(MemberAuditEntries(world.people), MEMBER_ADD, startDate) =
            SelectSeq(AuditLogOf(MemberAuditEntries(world.people), MEMBER_ADD),
                      LAMBDA x : x.created_at >= startDate)

\* the audit-log entries of one action type created after the instant e
EntriesAfter(actionType, e) ==
    { x \in MemberAuditEntries(world.people) : x.action_type = actionType /\ x.created_at > e }

\* C23: for a window that has ended, getHistoricalMemberCount is the live
\* approximate count, minus the joins logged after the window end, plus the leaves
\* logged after the window end, whatever the audit log holds and however its
\* entries fall into pages.
C23_HistoricalCountWalksBack ==
    (rev = "server2" /\ Computed("totalMembers") /\ ~isWeekInProgress(rev, world.now, endDate)) =>
        results["totalMembers"] =
            ApproximateMemberCount(world.people)
            - Cardinality(EntriesAfter(MEMBER_ADD, endDate))
            + Cardinality(EntriesAfter(MEMBER_REMOVE, endDate))

(***************************************************************************)
(* Claims about the member listing                                         *)
(***************************************************************************)
\* the member listing has its answer and runs the rest of the loop body
MembersPageServed == fetcher = "members" /\ pc = "await" /\ rstate = "none" /\ outcome = "body"

\* C24: over a finite member list served in ascending id order the listing ends,
\* and when every page is served it returns every member once, in order; the next
\* page is requested, with the cursor at the last id of the page just read, after
\* a full page and only then; a short or an empty page ends the listing.
C24_MemberListingExact ==
    /\ [](fetcher = "members" /\ pc = "done" /\ ~surfaced => acc = upstream)
    /\ [][MembersPageServed =>
            LET batch == MemberPage(upstream, cursor)
            IN  IF Len(batch) = PageLimit
                THEN pc' = "call" /\ cursor' = Last(batch).id /\ cursor' > cursor
                ELSE pc' = "done" /\ cursor' = cursor]_vars
    /\ (fetcher = "members") ~> (pc \in {"done", "failed"})

\* C24 witness: a full page then a short page, after a rate-limited request; the
\* cursor is the last id of the full page and the result is the whole list
C24_Witness ==
    /\ fetcher = "members"
    /\ pc = "done"
    /\ ~surfaced
    /\ 429 \in seen
    /\ Len(upstream) = PageLimit + 1
    /\ cursor = upstream[PageLimit].id
    /\ acc = upstream

(***************************************************************************)
(* Claims about threads and deleted messages                               *)
(***************************************************************************)
\* the threads of a channel, of every kind
ThreadIdsOf(channelId) ==
    { world.threads[i].id : i \in { j \in DOMAIN world.threads : world.threads[j].parent_id = channelId } }

\* C25: for a channel that supports threads, getAllChannelMessages of server.js
\* returns every in-window message its active, archived-public and
\* archived-private threads serve, whether the thread was created before the
\* window or inside it (read after getMessagesPosted has walked the channels).
C25_ThreadMessagesListed ==
    (rev = "server" /\ Computed("messagesPosted")) =>
        \A c \in { world.channels[i] : i \in DOMAIN world.channels } :
            isMessageableChannel(c) =>
                LET messages == getAllChannelMessages(rev, world, c, startDate, endDate)
                IN  \A m \in Posted :
                        (m.listed /\ InWindow(m.ts) /\ m.place \in ThreadIdsOf(c.id)) =>
                            \E i \in DOMAIN messages : messages[i].id = m.id

(***************************************************************************)
(* Claims about the internal backoff of the paginated fetchers             *)
(***************************************************************************)
\* let rateLimitDelay = 100
InitialDelay == 100

\* C26: in fetchMessages of server.js a page request answered 429 doubles the
\* internal delay and is then made again for the same page: once the request has
\* been reissued the delay is at least twice its initial value, every request of
\* the call names the same cursor, and a listing that was only rate limited
\* returns the in-window messages, none lost and none twice.
C26_RateLimitDoublesDelay ==
    (rev = "server" /\ fetcher = "messages") =>
        /\ (Len(issued) >= 2 /\ issued[1].status = 429) => rateLimitDelay >= 2 * InitialDelay
        /\ pc = "await" => \A i \in DOMAIN issued : issued[i].endpoint = cursor
        /\ (pc = "done" /\ seen \subseteq {200, 429}) => acc = FullResult

(***************************************************************************)
(* Claims about the intermediate states of the sheet                       *)
(***************************************************************************)
\* C27: while updateGoogleSheet inserts a new label alone (the row written at
\* row 2, the prior data rows not yet written to rows 3 and below), and after
\* the second write has failed, every data row the sheet held before the insert
\* is still in the sheet.
C27_RowsSurviveInsert ==
    \A p \in Procs :
        (requests[p].pc \in {"shift", "failed"} /\ \A q \in Procs \ {p} : requests[q].pc = "get") =>
            \A i \in 2..Len(requests[p].rows) :
                \E j \in DOMAIN sheet : sheet[j] = requests[p].rows[i]

\* C28: getMessagesPosted of server.js counts no message twice: the count never
\* exceeds the number of messages of the history, and a message that a listing
\* serves and that a deletion entry dated inside the window names adds one,
\* in a channel or in a thread.
C28_EachMessageCountedOnce ==
    (rev = "server" /\ Computed("messagesPosted")) =>
        results["messagesPosted"] <= Cardinality(Posted)

(***************************************************************************)
(* Claims about failures and termination of the per-channel listing        *)
(***************************************************************************)
\* the in-window messages of the pages read before the page at the cursor
KeptBefore(before) ==
    SelectSeq(upstream, LAMBDA m : m.id >= before /\ startDate <= m.ts /\ m.ts <= endDate)

\* C29: when a page after the first one fails, the listing returns the in-window
\* messages of the pages read before it, whether the page was answered 403 (null
\* from makeDiscordRequest) or failed with another error.
C29_LaterFailureKeepsEarlierPages ==
    (fetcher = "messages" /\ pc = "done" /\ surfaced /\ cursor # 0) =>
        acc = KeptBefore(cursor)

\* the listing has the outcome of its request and runs the rest of the loop body
MessagesPageAnswered == fetcher = "messages" /\ pc = "await" /\ rstate = "none"

\* C30: over a finite history served newest first, each page holding only
\* messages older than its cursor, the per-channel listing ends whatever mix of
\* success, 403 and error answers it gets: every iteration ends the loop or moves
\* the cursor to a strictly older message.
C30_ChannelListingTerminates ==
    /\ [][MessagesPageAnswered =>
            \/ pc' = "done" /\ cursor' = cursor
            \/ /\ pc' = "call"
               /\ \E i \in DOMAIN upstream : upstream[i].id = cursor'
               /\ cursor = 0 \/ cursor' < cursor]_vars
    /\ (fetcher = "messages") ~> (pc = "done")

\* C30 witness: a listing that read a page, moved its cursor, and ended on a
\* failed page after a rate-limited request
C30_Witness ==
    /\ fetcher = "messages"
    /\ pc = "done"
    /\ surfaced
    /\ 429 \in seen
    /\ cursor # 0
    /\ Len(upstream) = MaxItems

====
